---- MODULE Spec2Model ----
(***************************************************************************)
(* Model of the 30-minute aggregation engine of nettelhorst-aqi-api:       *)
(* app/tasks/aggregation_task.py, app/tasks/utils.py and the ingestion     *)
(* path of app/services/aqi_data_service.py.                               *)
(*                                                                         *)
(* Numeric measurement values are integers counting hundredths.            *)
(***************************************************************************)
EXTENDS Integers, Sequences, FiniteSets, Bags, TLC

VARIABLES
  now,          \* the wall clock read by datetime.now(timezone.utc)
  locations,    \* table aqi_location: sequence of rows [id, location_id]
  raw,          \* table aqi_5_minute_history: bag of rows
  buckets,      \* table aqi_30_minute_history: bag of rows
  task_logs,    \* table task_logs: sequence of rows, index = primary key
  run,          \* run[p]: the locals of process p's aggregate_30_minute_data
  runs_started, \* number of invocations so far
  ticks,        \* number of clock ticks so far
  calc          \* a call of a pure function: its arguments and its result

vars ==
  <<now, locations, raw, buckets, task_logs, run, runs_started, ticks, calc>>

----------------------------------------------------------------------------
(* Bounds *)

MaxRuns  == 2     \* invocations of aggregate_30_minute_data explored
MaxRaw   == 2     \* rows of aqi_5_minute_history explored
MaxBatch == 2
MaxTicks == 1     \* clock ticks explored

(* Program constants *)

BUFFER_MINUTES == 30   \* timedelta(minutes=30)
LOOKBACK_DAYS  == 30   \* timedelta(days=30)

TickMinutes == 15      \* granularity of the modelled clock

----------------------------------------------------------------------------
(* datetime *)

\* A datetime is [min, second, microsecond]: min counts the minutes since
\* midnight of day 0, so that date, hour and minute are its digits.
Dt(d, h, m, s, u) ==
  [min |-> d * 1440 + h * 60 + m, second |-> s, microsecond |-> u]

DateOf(dt)   == dt.min \div 1440
HourOf(dt)   == (dt.min \div 60) % 24
MinuteOf(dt) == dt.min % 60

DtLT(a, b) ==
  \/ a.min < b.min
  \/ /\ a.min = b.min
     /\ \/ a.second < b.second
        \/ a.second = b.second /\ a.microsecond < b.microsecond

DtLE(a, b) == a = b \/ DtLT(a, b)

\* dt + timedelta(minutes = n), n possibly negative
AddMinutes(dt, n) == [dt EXCEPT !.min = @ + n]

\* dt + timedelta(days = n)
AddDays(dt, n) == [dt EXCEPT !.min = @ + n * 1440]

\* dt.replace(hour = h, minute = m); the callers keep h in 0..23
ReplaceHM(dt, h, m) == [dt EXCEPT !.min = DateOf(dt) * 1440 + h * 60 + m]

\* dt.replace(minute = m)
ReplaceM(dt, m) == ReplaceHM(dt, HourOf(dt), m)

----------------------------------------------------------------------------
(* The calendar fields of a datetime: year, month and day are derived from  *)
(* the day count the way datetime derives them from its ordinal.           *)

\* the date of day 0
Epoch == [year |-> 2023, month |-> 11, day |-> 21]

IsLeap(y) == (y % 4 = 0 /\ y % 100 # 0) \/ y % 400 = 0

DaysInMonth(y, m) ==
  IF m = 2 THEN (IF IsLeap(y) THEN 29 ELSE 28)
  ELSE IF m \in {4, 6, 9, 11} THEN 30 ELSE 31

DaysInYear(y) == IF IsLeap(y) THEN 366 ELSE 365

RECURSIVE DaysBeforeMonth(_, _)
DaysBeforeMonth(y, m) ==
  IF m = 1 THEN 0 ELSE DaysBeforeMonth(y, m - 1) + DaysInMonth(y, m - 1)

\* n days after 1 January of year y: the year it falls in, and the rest
RECURSIVE YearOfDays(_, _)
YearOfDays(y, n) ==
  IF n >= DaysInYear(y) THEN YearOfDays(y + 1, n - DaysInYear(y))
  ELSE [year |-> y, rest |-> n]

\* n days after the first of month m of year y, within that year
RECURSIVE MonthOfDays(_, _, _)
MonthOfDays(y, m, n) ==
  IF n >= DaysInMonth(y, m) THEN MonthOfDays(y, m + 1, n - DaysInMonth(y, m))
  ELSE [year |-> y, month |-> m, day |-> n + 1]

\* dt.year, dt.month, dt.day
YMD(dt) ==
  LET ys == YearOfDays(Epoch.year,
                       DateOf(dt) + DaysBeforeMonth(Epoch.year, Epoch.month)
                         + Epoch.day - 1)
  IN  MonthOfDays(ys.year, 1, ys.rest)

\* all the fields of dt
Fields(dt) ==
  [year |-> YMD(dt).year, month |-> YMD(dt).month, day |-> YMD(dt).day,
   hour |-> HourOf(dt), minute |-> MinuteOf(dt),
   second |-> dt.second, microsecond |-> dt.microsecond]

----------------------------------------------------------------------------
(* WindowCalculator *)

\* mutant: minute 30 itself is rounded down to the hour
round_down_past_half_hour(dt) ==
  IF MinuteOf(dt) > 30
    THEN [ReplaceM(dt, 30) EXCEPT !.second = 0, !.microsecond = 0]
    ELSE [ReplaceM(dt, 0) EXCEPT !.second = 0, !.microsecond = 0]

round_down_to_half_hour(dt) ==
  IF MinuteOf(dt) >= 30
    THEN [ReplaceM(dt, 30) EXCEPT !.second = 0, !.microsecond = 0]
    ELSE [ReplaceM(dt, 0) EXCEPT !.second = 0, !.microsecond = 0]

\* mutant: at 23:30 the day is not advanced
window_end_of_same_day(current) ==
  IF MinuteOf(current) = 0
    THEN ReplaceM(current, 30)
    ELSE IF HourOf(current) = 23
      THEN ReplaceHM(current, 0, 0)
      ELSE ReplaceHM(current, HourOf(current) + 1, 0)

\* The end the loop body computes for the window starting at current.
window_end_of(current) ==
  IF MinuteOf(current) = 0
    THEN ReplaceM(current, 30)
    ELSE IF HourOf(current) = 23
      THEN ReplaceHM(AddDays(current, 1), 0, 0)
      ELSE ReplaceHM(current, HourOf(current) + 1, 0)

\* mutant: a window ending exactly at end_time is dropped
WindowStep_strict(st, end_time) ==
  IF ~DtLT(st.current, end_time) THEN st
  ELSE LET window_end == window_end_of(st.current)
       IN  [current |-> window_end,
            windows |-> IF DtLT(window_end, end_time)
                          THEN Append(st.windows, <<st.current, window_end>>)
                          ELSE st.windows]

\* mutant: each window is put in front of the list
WindowStep_prepending(st, end_time) ==
  IF ~DtLT(st.current, end_time) THEN st
  ELSE LET window_end == window_end_of(st.current)
       IN  [current |-> window_end,
            windows |-> IF DtLE(window_end, end_time)
                          THEN <<<<st.current, window_end>>>> \o st.windows
                          ELSE st.windows]

\* One iteration of the while loop on the loop state [current, windows];
\* the identity once the loop condition is false.
WindowStep(st, end_time) ==
  IF ~DtLT(st.current, end_time) THEN st
  ELSE LET window_end == window_end_of(st.current)
       IN  [current |-> window_end,
            windows |-> IF DtLE(window_end, end_time)
                          THEN Append(st.windows, <<st.current, window_end>>)
                          ELSE st.windows]

\* Blocks of iterations.  Each intermediate loop state is bound to a value
\* before the next block runs, which keeps the evaluation depth small.
WindowStep4(st, e) ==
  CHOOSE r \in {WindowStep(WindowStep(v, e), e) :
                  v \in {WindowStep(WindowStep(st, e), e)}} : TRUE

WindowStep16(st, e) ==
  CHOOSE r \in {WindowStep4(WindowStep4(v, e), e) :
                  v \in {WindowStep4(WindowStep4(st, e), e)}} : TRUE

WindowStep64(st, e) ==
  CHOOSE r \in {WindowStep16(WindowStep16(v, e), e) :
                  v \in {WindowStep16(WindowStep16(st, e), e)}} : TRUE

\* while current < end_time: ...
RECURSIVE WindowLoop(_, _)
WindowLoop(st, end_time) ==
  IF ~DtLT(st.current, end_time) THEN st.windows
  ELSE CHOOSE r \in {WindowLoop(v, end_time) :
                       v \in {WindowStep64(st, end_time)}} : TRUE

get_30_minute_windows(start_time, end_time) ==
  WindowLoop([current |-> round_down_to_half_hour(start_time),
              windows |-> <<>>], end_time)

\* The clock values the model explores, and the resume points and ceilings
\* of a run at each of them when the location has no bucket yet.
Now0 == Dt(41, 0, 15, 0, 0)

ClockValues == {AddMinutes(Now0, k * TickMinutes) : k \in 0..MaxTicks}

\* get_30_minute_windows tabulated once for those arguments: the same
\* lists, looked up instead of recomputed in every state.
RECURSIVE Tabulate(_)
Tabulate(args) ==
  IF args = {} THEN <<>>
  ELSE LET a == CHOOSE x \in args : TRUE
       IN  (a :> get_30_minute_windows(a[1], a[2])) @@ Tabulate(args \ {a})

WindowsTable ==
  Tabulate({AddDays(t, -LOOKBACK_DAYS) : t \in ClockValues}
           \X {round_down_to_half_hour(AddMinutes(t, -BUFFER_MINUTES)) :
                 t \in ClockValues})

Windows(start_time, end_time) ==
  IF <<start_time, end_time>> \in DOMAIN WindowsTable
    THEN WindowsTable[<<start_time, end_time>>]
    ELSE get_30_minute_windows(start_time, end_time)

----------------------------------------------------------------------------
(* FieldAggregator *)

\* A JSON value is tagged with its Python type:
\*   [kind |-> "int" | "float", v |-> hundredths],
\*   [kind |-> "bool", v |-> 0 or 1],
\*   [kind |-> "str"], [kind |-> "list"], [kind |-> "None"],
\*   [kind |-> "dict", items |-> function from keys to values].
Num(h)     == [kind |-> "float", v |-> h]
DictOf(f)  == [kind |-> "dict", items |-> f]

\* mutant: an untracked field is averaged too
fields_to_average_and_wifi ==
  <<"rco2_corrected", "atmp", "tvoc", "tvocIndex", "rhum_corrected",
    "pm02_corrected", "wifi">>

fields_to_average ==
  <<"rco2_corrected", "atmp", "tvoc", "tvocIndex", "rhum_corrected",
    "pm02_corrected">>

\* mutant: a boolean is not taken as a number
IsNumber_not_bool(value) == value.kind \in {"int", "float"}

\* isinstance(value, (int, float)); bool is a subclass of int
IsNumber(value) == value.kind \in {"int", "float", "bool"}

\* float(value), in hundredths
ToFloat(value) ==
  IF value.kind = "bool" THEN 100 * value.v ELSE value.v

\* the record contributes a value for the field (lines 65-67)
HasValid(record, field) ==
  /\ record.measure_data.kind = "dict"
  /\ field \in DOMAIN record.measure_data.items
  /\ IsNumber(record.measure_data.items[field])

\* round(x / n, 2) for x in hundredths: nearest hundredth, ties to even
Round2(x, n) ==
  LET q == x \div n
      r == x % n
  IN  IF 2 * r < n THEN q
      ELSE IF 2 * r > n THEN q + 1
      ELSE IF q % 2 = 0 THEN q ELSE q + 1

\* sum(values) and len(values) for one field over a bag of records
RECURSIVE SumOver(_, _, _)
SumOver(records, rows, field) ==
  IF rows = {} THEN [sum |-> 0, len |-> 0]
  ELSE LET record == CHOOSE r \in rows : TRUE
           rest == SumOver(records, rows \ {record}, field)
       IN  IF HasValid(record, field)
             THEN [sum |-> rest.sum + records[record] *
                             ToFloat(record.measure_data.items[field]),
                   len |-> rest.len + records[record]]
             ELSE rest

\* mutant: the divisor is the number of records
Values_of_all_records(records, field) ==
  [sum |-> SumOver(records, DOMAIN records, field).sum,
   len |-> BagCardinality(records)]

Values(records, field) == SumOver(records, DOMAIN records, field)

\* records is a bag of aqi_5_minute_history rows; the result maps each
\* averaged field to its mean
average_measure_data(records) ==
  LET present == {i \in DOMAIN fields_to_average :
                    Values(records, fields_to_average[i]).len > 0}
  IN  [field \in {fields_to_average[i] : i \in present} |->
         Round2(Values(records, field).sum, Values(records, field).len)]

----------------------------------------------------------------------------
(* Tables and queries *)

Row5(loc_id, t, md) ==
  [aqi_location_id |-> loc_id, measure_time |-> t, measure_data |-> md]

Row30(loc_id, t, averaged) ==
  [aqi_location_id |-> loc_id, measure_time |-> t, measure_data |-> averaged]

\* the sub-bag of a table made of the given rows
Restrict(table, rows) == [r \in rows |-> table[r]]

Count(table) == BagCardinality(table)

\* db.query(Aqi30MinuteHistory).filter(aqi_location_id == id)
BucketTimes(bk, id) ==
  {b.measure_time : b \in {x \in DOMAIN bk : x.aqi_location_id = id}}

\* .order_by(desc(measure_time)).first().measure_time, when a row exists
latest_30min(bk, id) ==
  CHOOSE t \in BucketTimes(bk, id) :
    \A u \in BucketTimes(bk, id) : DtLE(u, t)

\* mutant: the resume point ignores the latest bucket
start_time_of_lookback(bk, id, current_time) ==
  AddDays(current_time, -LOOKBACK_DAYS)

\* lines 126-130
start_time_of(bk, id, current_time) ==
  IF BucketTimes(bk, id) # {}
    THEN latest_30min(bk, id)
    ELSE AddDays(current_time, -LOOKBACK_DAYS)

\* mutant: the query has no upper bound
five_min_records_to_now(rw, id, start_time, max_end_time) ==
  Restrict(rw, {r \in DOMAIN rw : /\ r.aqi_location_id = id
                                   /\ DtLT(start_time, r.measure_time)})

\* lines 133-139
five_min_records(rw, id, start_time, max_end_time) ==
  Restrict(rw, {r \in DOMAIN rw : /\ r.aqi_location_id = id
                                   /\ DtLT(start_time, r.measure_time)
                                   /\ DtLE(r.measure_time, max_end_time)})

\* mutant: the window is closed at its start
InWindow_closed_start(r, window) ==
  /\ DtLE(window[1], r.measure_time)
  /\ DtLE(r.measure_time, window[2])

\* mutant: the window is open at its end
InWindow_open_end(r, window) ==
  /\ DtLT(window[1], r.measure_time)
  /\ DtLT(r.measure_time, window[2])

\* line 156
InWindow(r, window) ==
  /\ DtLT(window[1], r.measure_time)
  /\ DtLE(r.measure_time, window[2])

\* lines 154-157
window_records(records, window) ==
  Restrict(records, {r \in DOMAIN records : InWindow(r, window)})

\* lines 171-178
existing_record(bk, id, window_end) == window_end \in BucketTimes(bk, id)

\* The indices of the windows the loop body averages (line 164).
Averaged(records, windows) ==
  {i \in DOMAIN windows : \E r \in DOMAIN records : InWindow(r, windows[i])}

\* mutant: an empty average is inserted too
Inserted_with_empty_average(bk, id, records, windows) ==
  {i \in DOMAIN windows :
     /\ \E r \in DOMAIN records : InWindow(r, windows[i])
     /\ ~existing_record(bk, id, windows[i][2])}

\* The indices of the windows for which the loop body reaches db.add.
Inserted(bk, id, records, windows) ==
  {i \in DOMAIN windows :
     /\ \E r \in DOMAIN records : InWindow(r, windows[i])
     /\ DOMAIN average_measure_data(window_records(records, windows[i])) # {}
     /\ ~existing_record(bk, id, windows[i][2])}

\* mutant: the bucket is keyed by its window's start
new_record_by_start(id, records, window) ==
  Row30(id, window[1], average_measure_data(window_records(records, window)))

\* mutant: the bucket is keyed by the time of its window's last record
new_record_at_last_record(id, records, window) ==
  Row30(id,
        (CHOOSE r \in DOMAIN window_records(records, window) :
           \A x \in DOMAIN window_records(records, window) :
             DtLE(x.measure_time, r.measure_time)).measure_time,
        average_measure_data(window_records(records, window)))

new_record(id, records, window) ==
  Row30(id, window[2], average_measure_data(window_records(records, window)))

\* The bag of the rows added for the windows with indices ins.
Added(id, records, windows, ins) ==
  LET rows == {new_record(id, records, windows[i]) : i \in ins}
  IN  [r \in rows |->
         Cardinality({i \in ins : new_record(id, records, windows[i]) = r})]

\* The rows one location's session adds (lines 119-192): a bag, empty when
\* no 5-minute record is fetched.
Pending(bk, rw, id, current_time, max_end_time) ==
  LET start_time == start_time_of(bk, id, current_time)
      records == five_min_records(rw, id, start_time, max_end_time)
  IN  IF Count(records) = 0 THEN EmptyBag
      ELSE LET windows == Windows(start_time, max_end_time)
           IN  CHOOSE b \in {Added(id, records, windows, ins) :
                               ins \in {Inserted(bk, id, records, windows)}} :
                 TRUE

----------------------------------------------------------------------------
(* Inputs *)

Procs == {1, 2}          \* two invocations of run_aggregation_task.py
Main == 1

LocationIds == <<101, 102>>   \* external ids of the seeded locations

NoneDt == Dt(0, 0, 0, 0, 0)   \* a local not assigned yet

T_old  == Dt(11, 0, 30, 0, 0)   \* 30 days before the second clock value
T_in   == Dt(40, 23, 15, 0, 0)  \* inside the window (23:00, 23:30]
T_edge == Dt(40, 23, 30, 0, 0)  \* end of that window, start of the next
T_next == Dt(40, 23, 45, 0, 0)  \* inside the window (23:30, 00:00]

IsoStr(t)     == [kind |-> "str", iso |-> t]
IntVal(n)     == [kind |-> "int", v |-> n]

\* a measurement of the AirGradient API: a mapping from keys to JSON values
Measurement(location_id, t, fields) ==
  ("timestamp" :> IsoStr(t)) @@ ("locationId" :> IntVal(location_id)) @@ fields

Tracked(h)  == ("atmp" :> Num(h)) @@ ("wifi" :> IntVal(-60))
Untracked   == ("wifi" :> IntVal(-60))

Measurements ==
  {Measurement(101, t, Tracked(2200)) : t \in {T_old, T_in, T_next}}
  \cup {Measurement(101, T_edge, Tracked(2300))}
  \cup {Measurement(101, T_in, Untracked)}
  \cup {Measurement(102, T_edge, Tracked(2300))}
  \cup {("locationId" :> IntVal(101)) @@ Tracked(2200)}

Batches == {<<m>> : m \in Measurements}

----------------------------------------------------------------------------
(* State *)

NoResult == [kind |-> "None"]
NoCalc == [op |-> "none"]

Idle ==
  [pc |-> "idle", outcome |-> "none", task_log_id |-> 0, log_row |-> 0,
   current_time |-> NoneDt, max_end_time |-> NoneDt,
   locations |-> <<>>, i |-> 1,
   five_min_records |-> EmptyBag, pending |-> EmptyBag,
   aggregated_count |-> 0, total_aggregated |-> 0,
   location_results |-> <<>>,
   \* history: the primary key of the task log row this invocation
   \* committed (log_row), the ends of the windows the current session
   \* averaged, the number of 5-minute queries issued, whether the last
   \* task-log write went through
   averaged |-> {}, queries |-> 0, log_written |-> FALSE,
   \* history: the bucket table as the existence checks of the current
   \* session saw it
   seen |-> EmptyBag,
   \* history: the latest reading of the clock by this invocation or one
   \* before it, and the ceiling taken from it
   read |-> [current_time |-> NoneDt, max_end_time |-> NoneDt],
   \* history: the size of the raw table (rows are only ever added) and the
   \* bucket table when this invocation started, and the outcome, ceiling
   \* and starting tables of the invocation before it
   raw_rows0 |-> 0, buckets0 |-> EmptyBag,
   prev |-> [outcome |-> "none", max_end_time |-> NoneDt,
             raw_rows0 |-> 0, buckets0 |-> EmptyBag]]

Init ==
  /\ now = Now0
  /\ locations = <<>>
  /\ raw = EmptyBag
  /\ buckets = EmptyBag
  /\ task_logs = <<>>
  /\ run = [p \in Procs |-> Idle]
  /\ runs_started = 0
  /\ ticks = 0
  /\ calc = NoCalc

----------------------------------------------------------------------------
(* The clock and the seeding of locations *)

\* The clock is read once per run (line 100), so a tick during a run acts as
\* a tick after it.
Tick ==
  /\ \A p \in Procs : run[p].pc \in {"idle", "returned"}
  /\ ticks < MaxTicks
  /\ ticks' = ticks + 1
  /\ now' = AddMinutes(now, TickMinutes)
  /\ UNCHANGED <<locations, raw, buckets, task_logs, run, runs_started, calc>>

\* seed_database: one more aqi_location row
AddLocation ==
  /\ \A p \in Procs : run[p].pc \in {"idle", "returned"}
  /\ Len(locations) < Len(LocationIds)
  /\ locations' = Append(locations,
                         [id |-> Len(locations) + 1,
                          location_id |-> LocationIds[Len(locations) + 1]])
  /\ UNCHANGED <<now, raw, buckets, task_logs, run, runs_started, ticks, calc>>

----------------------------------------------------------------------------
(* AqiDataService *)

\* db.query(AqiLocation).all(): the rows in an order the database chooses
get_all_locations ==
  {s \in [1..Len(locations) -> {locations[k] : k \in 1..Len(locations)}] :
     \A a, b \in 1..Len(locations) : a # b => s[a] # s[b]}

\* get_location_by_location_id: the matching rows (.first() takes one)
get_location_by_location_id(location_id) ==
  {locations[k] : k \in {j \in 1..Len(locations) :
                           locations[j].location_id = location_id}}

\* The loop body of save_measurement_data for one measurement: the rows the
\* session has added so far (added) and saved_count, after the measurement.
\* Queries see committed rows only (autoflush is off).
SaveOne(st, measurement) ==
  IF \/ "timestamp" \notin DOMAIN measurement
     \/ measurement["timestamp"].kind = "None"
    THEN st                                     \* missing timestamp
  ELSE IF "iso" \notin DOMAIN measurement["timestamp"]
    THEN st                                     \* fromisoformat raises
  ELSE IF \/ "locationId" \notin DOMAIN measurement
          \/ measurement["locationId"].kind = "None"
          \/ measurement["locationId"] = IntVal(0)
    THEN st                                     \* missing locationId
  ELSE IF get_location_by_location_id(measurement["locationId"].v) = {}
    THEN st                                     \* unknown location
  ELSE LET aqi_location ==
             CHOOSE l \in get_location_by_location_id(
                            measurement["locationId"].v) : TRUE
           measure_time == measurement["timestamp"].iso
           existing == \E r \in DOMAIN raw :
                         /\ r.aqi_location_id = aqi_location.id
                         /\ r.measure_time = measure_time
       IN  IF existing THEN st
           ELSE [added |-> st.added (+)
                             SetToBag({Row5(aqi_location.id, measure_time,
                                            DictOf(measurement))}),
                 saved_count |-> st.saved_count + 1]

RECURSIVE SaveLoop(_, _)

\* mutant: the first skipped measurement ends the loop
SaveLoop_until_skip(st, measurements) ==
  IF measurements = <<>> THEN st
  ELSE IF SaveOne(st, Head(measurements)) = st THEN st
  ELSE SaveLoop(SaveOne(st, Head(measurements)), Tail(measurements))

SaveLoop(st, measurements) ==
  IF measurements = <<>> THEN st
  ELSE SaveLoop(SaveOne(st, Head(measurements)), Tail(measurements))

\* save_measurement_data(measurements)
save_measurement_data(measurements) ==
  LET st == SaveLoop([added |-> EmptyBag, saved_count |-> 0], measurements)
  IN  /\ Count(raw) + st.saved_count <= MaxRaw
      /\ raw' = IF st.saved_count > 0 THEN raw (+) st.added ELSE raw
      /\ UNCHANGED <<now, locations, buckets, task_logs, run, runs_started,
                     ticks, calc>>

Ingest == \E measurements \in Batches : save_measurement_data(measurements)

----------------------------------------------------------------------------
(* RunLog *)

TaskLog(status) ==
  [task_name |-> "aggregate_30_minute_data", status |-> status,
   result |-> NoResult, error_message |-> NoResult, is_successful |-> FALSE]

\* mutant: error_message is never stored
update_task_log_no_error(task_log_id, status, result, is_successful, ok) ==
  IF ok /\ task_log_id \in DOMAIN task_logs
    THEN [task_logs EXCEPT ![task_log_id] =
            [@ EXCEPT !.status = status,
                      !.result = result,
                      !.is_successful = is_successful]]
    ELSE task_logs

\* mutant: is_successful keeps its value
update_task_log_keeping_flag(task_log_id, status, result, is_successful, ok) ==
  IF ok /\ task_log_id \in DOMAIN task_logs
    THEN [task_logs EXCEPT ![task_log_id] =
            [@ EXCEPT !.status = status,
                      !.result = result,
                      !.error_message =
                         IF ~is_successful THEN result ELSE @]]
    ELSE task_logs

\* mutant: the status keeps its value
update_task_log_keeping_status(task_log_id, status, result, is_successful, ok) ==
  IF ok /\ task_log_id \in DOMAIN task_logs
    THEN [task_logs EXCEPT ![task_log_id] =
            [@ EXCEPT !.result = result,
                      !.is_successful = is_successful,
                      !.error_message =
                         IF ~is_successful THEN result ELSE @]]
    ELSE task_logs

\* update_task_log: the table afterwards.  ok = FALSE is the path on which
\* the session raises; the exception is logged and swallowed (lines 24-25).
update_task_log(task_log_id, status, result, is_successful, ok) ==
  IF ok /\ task_log_id \in DOMAIN task_logs
    THEN [task_logs EXCEPT ![task_log_id] =
            [@ EXCEPT !.status = status,
                      !.result = result,
                      !.is_successful = is_successful,
                      !.error_message =
                         IF ~is_successful THEN result ELSE @]]
    ELSE task_logs

NoLocationsFound == [kind |-> "No locations found"]
Processed(n, total) ==
  [kind |-> "Processed", locations |-> n, aggregated |-> total]
ErrorMessage == [kind |-> "Error in aggregate_30_minute_data"]

----------------------------------------------------------------------------
(* AggregationRunner: aggregate_30_minute_data, one action per I/O step *)

Active(p) == run[p].pc \in {"started", "loop", "commit"}

Returned(r, outcome) ==
  [r EXCEPT !.pc = "returned", !.outcome = outcome, !.pending = EmptyBag,
            !.seen = EmptyBag]

\* lines 84-97: create the task log row.  created = "yes": committed and
\* refreshed; "lost": the commit went through and db.refresh raised, so the
\* row exists and task_log_id stays None; "no": nothing was committed.
StartRun(p, created) ==
  /\ run[p].pc \in {"idle", "returned"}
  /\ runs_started < MaxRuns
  /\ runs_started' = runs_started + 1
  /\ task_logs' = IF created = "no" THEN task_logs
                  ELSE Append(task_logs, TaskLog("started"))
  /\ LET fresh == [Idle EXCEPT
                     !.raw_rows0 = Count(raw), !.buckets0 = buckets,
                     !.read = run[p].read,
                     !.log_row = IF created = "no" THEN 0
                                 ELSE Len(task_logs) + 1,
                     !.prev = [outcome |-> run[p].outcome,
                               max_end_time |-> run[p].max_end_time,
                               raw_rows0 |-> run[p].raw_rows0,
                               buckets0 |-> run[p].buckets0]]
     IN  run' = [run EXCEPT ![p] =
                   IF created = "yes"
                     THEN [fresh EXCEPT !.pc = "started",
                                        !.task_log_id = Len(task_logs) + 1]
                     ELSE Returned(fresh, "failed")]
  /\ UNCHANGED <<now, locations, raw, buckets, ticks, calc>>

\* mutant: an empty list is processed like any other
no_locations_never(locs) == FALSE

\* line 107: if not locations
no_locations(locs) == locs = <<>>

\* mutant: no buffer is subtracted
buffered_time_unbuffered(current_time) == current_time

\* line 102: buffered_time = current_time - timedelta(minutes=30)
buffered_time_of(current_time) == AddMinutes(current_time, -BUFFER_MINUTES)

\* lines 99-113: the ceiling and the list of locations
Setup(p, ok) ==
  /\ run[p].pc = "started"
  /\ \E locs \in get_all_locations :
       LET current_time == now
           buffered_time == buffered_time_of(current_time)
           max_end_time == round_down_to_half_hour(buffered_time)
           r == [run[p] EXCEPT !.current_time = current_time,
                               !.max_end_time = max_end_time,
                               !.read = [current_time |-> current_time,
                                         max_end_time |-> max_end_time],
                               !.locations = locs]
       IN  IF no_locations(locs)
             THEN /\ task_logs' = update_task_log(r.task_log_id, "completed",
                                                  NoLocationsFound, TRUE, ok)
                  /\ run' = [run EXCEPT ![p] =
                               [Returned(r, "completed") EXCEPT
                                  !.log_written = ok]]
             ELSE /\ ok
                  /\ task_logs' = task_logs
                  /\ run' = [run EXCEPT ![p] = [r EXCEPT !.pc = "loop"]]
  /\ UNCHANGED <<now, locations, raw, buckets, runs_started, ticks, calc>>

\* lines 116-192: the queries and the window loop of one location's session
ProcessLocation(p) ==
  /\ run[p].pc = "loop"
  /\ run[p].i <= Len(run[p].locations)
  /\ LET r == run[p]
         location == r.locations[r.i]
         start_time == start_time_of(buckets, location.id, r.current_time)
         records == five_min_records(raw, location.id, start_time,
                                     r.max_end_time)
     IN  IF Count(records) = 0
           THEN run' = [run EXCEPT ![p] =
                  [r EXCEPT !.location_results =
                              (location.location_id :> 0) @@ @,
                            !.five_min_records = EmptyBag,
                            !.averaged = {},
                            !.queries = @ + 1,
                            !.i = @ + 1]]
           ELSE \E pending \in {Pending(buckets, raw, location.id,
                                         r.current_time, r.max_end_time)},
                   windows \in {Windows(start_time, r.max_end_time)} :
                  run' = [run EXCEPT ![p] =
                    [r EXCEPT !.pc = "commit",
                              !.five_min_records = records,
                              !.pending = pending,
                              !.seen = buckets,
                              !.aggregated_count = Count(pending),
                              !.queries = @ + 1,
                              !.averaged =
                                 {windows[i][2] :
                                    i \in Averaged(records, windows)}]]
  /\ UNCHANGED <<now, locations, raw, buckets, task_logs, runs_started,
                 ticks, calc>>

\* mutant: the commit replaces the buckets of the locations it writes
session_commit_replacing(bk, pending) ==
  [b \in {x \in DOMAIN bk :
            \A y \in DOMAIN pending :
              y.aqi_location_id # x.aqi_location_id} |-> bk[b]] (+) pending

\* mutant: the commit stores every added row twice
session_commit_twice(bk, pending) == bk (+) pending (+) pending

\* line 194: the table after db.commit() of a session whose only changes
\* are the rows it added
session_commit(bk, pending) == bk (+) pending

\* lines 194-198: db.commit() and the counters
CommitLocation(p) ==
  /\ run[p].pc = "commit"
  /\ buckets' = session_commit(buckets, run[p].pending)
  /\ LET r == run[p]
         location == r.locations[r.i]
     IN  run' = [run EXCEPT ![p] =
           [r EXCEPT !.pc = "loop",
                     !.pending = EmptyBag,
                     !.seen = EmptyBag,
                     !.location_results =
                        (location.location_id :> r.aggregated_count) @@ @,
                     !.total_aggregated = @ + r.aggregated_count,
                     !.aggregated_count = 0,
                     !.i = @ + 1]]
  /\ UNCHANGED <<now, locations, raw, task_logs, runs_started, ticks, calc>>

\* lines 200-216: all locations processed
Finish(p, ok) ==
  /\ run[p].pc = "loop"
  /\ run[p].i > Len(run[p].locations)
  /\ task_logs' = update_task_log(run[p].task_log_id, "completed",
                                  Processed(Len(run[p].locations),
                                            run[p].total_aggregated),
                                  TRUE, ok)
  /\ run' = [run EXCEPT ![p] =
               [Returned(run[p], "completed") EXCEPT !.log_written = ok]]
  /\ UNCHANGED <<now, locations, raw, buckets, runs_started, ticks, calc>>

\* mutant: the rows the failing session had added are persisted
Fail_persisting_pending(p, ok) ==
  /\ \/ run[p].pc \in {"started", "commit"}
     \/ run[p].pc = "loop" /\ run[p].i <= Len(run[p].locations)
  /\ task_logs' = update_task_log(run[p].task_log_id, "failed",
                                  ErrorMessage, FALSE, ok)
  /\ run' = [run EXCEPT ![p] =
               [Returned(run[p], "failed") EXCEPT
                  !.log_written = ok /\ run[p].task_log_id # 0]]
  /\ buckets' = buckets (+) run[p].pending
  /\ UNCHANGED <<now, locations, raw, runs_started, ticks, calc>>

\* lines 218-224: a database call of the run raises (get_all_locations, a
\* query of a location's session, or its commit); the session's pending
\* rows are rolled back.
Fail(p, ok) ==
  /\ \/ run[p].pc \in {"started", "commit"}
     \/ run[p].pc = "loop" /\ run[p].i <= Len(run[p].locations)
  /\ task_logs' = update_task_log(run[p].task_log_id, "failed",
                                  ErrorMessage, FALSE, ok)
  /\ run' = [run EXCEPT ![p] =
               [Returned(run[p], "failed") EXCEPT
                  !.log_written = ok /\ run[p].task_log_id # 0]]
  /\ UNCHANGED <<now, locations, raw, buckets, runs_started, ticks, calc>>

\* the process is killed mid-run: no handler runs
Kill(p) ==
  /\ Active(p)
  /\ run' = [run EXCEPT ![p] = Returned(run[p], "killed")]
  /\ UNCHANGED <<now, locations, raw, buckets, task_logs, runs_started,
                 ticks, calc>>

----------------------------------------------------------------------------
(* Non-overlapping invocations, interleaved with ingestion and the clock.  *)
(* Spec explores the data path with every task-log write succeeding;       *)
(* SpecLog adds the failures of the task-log writes, over fewer inputs.    *)

Run(p, oks, creations) ==
  \/ \E created \in creations : StartRun(p, created)
  \/ \E ok \in oks : Setup(p, ok)
  \/ ProcessLocation(p)
  \/ CommitLocation(p)
  \/ \E ok \in oks : Finish(p, ok)
  \/ \E ok \in oks : Fail(p, ok)
  \/ Kill(p)

Next ==
  \/ Tick
  \/ AddLocation
  \/ Ingest
  \/ Run(Main, {TRUE}, {"yes"})

Spec == Init /\ [][Next]_vars

\* The failures of the task-log writes, over one location's measurements.
LogBatches == {<<Measurement(101, T_in, Tracked(2200))>>}

NextLog ==
  \/ Tick
  \/ AddLocation
  \/ \E measurements \in LogBatches : save_measurement_data(measurements)
  \/ Run(Main, BOOLEAN, {"yes", "lost", "no"})

SpecLog == Init /\ [][NextLog]_vars

\* The steps the code of an invocation takes by itself: once started, the
\* coroutine runs on until it returns (no step waits on another process).
Progress(p) ==
  \/ \E ok \in BOOLEAN : Setup(p, ok)
  \/ ProcessLocation(p)
  \/ CommitLocation(p)
  \/ \E ok \in BOOLEAN : Finish(p, ok)

SpecLogFair == Init /\ [][NextLog]_vars /\ WF_vars(Progress(Main))

\* Ingestion that is never more than 30 minutes behind: a record with
\* timestamp t is stored at an instant s <= t + 30 min.  A value of the
\* clock stands for the instants from it up to the next tick; a store that
\* follows a run's reading of the clock (line 100) at the same value happens
\* at an instant after that reading, so there now < s <= t + 30 min.
T_midnight == Dt(41, 0, 0, 0, 0)
T_now == Now0

TimelyBatches ==
  {<<Measurement(101, t, Tracked(2200))>> :
     t \in {T_in, T_next, T_midnight, T_now}}
  \cup {<<Measurement(102, T_midnight, Tracked(2300))>>}

ClockRead == \E p \in Procs : run[p].read.current_time = now

Timely(t) ==
  IF ClockRead THEN DtLT(now, AddMinutes(t, 30))
  ELSE DtLE(now, AddMinutes(t, 30))

TimelyIngest ==
  \E measurements \in TimelyBatches :
    /\ \A k \in DOMAIN measurements :
         Timely(measurements[k]["timestamp"].iso)
    /\ save_measurement_data(measurements)

NextTimely ==
  \/ Tick
  \/ AddLocation
  \/ TimelyIngest
  \/ Run(Main, {TRUE}, {"yes"})

SpecTimely == Init /\ [][NextTimely]_vars

\* Records around the 30-day resume point of a location without buckets:
\* at the first clock value the resume point is day 11 00:15, inside the
\* window (00:00, 00:30] of T_lead and T_old.
T_lead == Dt(11, 0, 10, 0, 0)

LookbackBatches ==
  {<<Measurement(101, T_lead, Tracked(2400))>>,
   <<Measurement(101, T_old, Tracked(2200))>>,
   <<Measurement(101, T_in, Tracked(2200))>>}

NextLookback ==
  \/ Tick
  \/ AddLocation
  \/ \E measurements \in LookbackBatches : save_measurement_data(measurements)
  \/ Run(Main, {TRUE}, {"yes"})

SpecLookback == Init /\ [][NextLookback]_vars

\* Calls of save_measurement_data whose return value is kept in calc:
\* batches of up to MaxBatch measurements, well-formed or not.  ok = FALSE
\* is the path on which db.commit() raises and the call re-raises.
IngestMeasurements ==
  {Measurement(101, T_in, Tracked(2200)),
   Measurement(101, T_next, Tracked(2300)),
   ("locationId" :> IntVal(101)) @@ Tracked(2200),
   ("timestamp" :> [kind |-> "str"]) @@ ("locationId" :> IntVal(101))
      @@ Tracked(2200),
   ("timestamp" :> IsoStr(T_in)) @@ Tracked(2200),
   Measurement(999, T_in, Tracked(2200))}

IngestBatches ==
  UNION {[1..n -> IngestMeasurements] : n \in 0..MaxBatch}

CallSave(measurements, ok) ==
  LET st == SaveLoop([added |-> EmptyBag, saved_count |-> 0], measurements)
  IN  /\ Count(raw) + st.saved_count <= MaxRaw
      /\ IF st.saved_count > 0 /\ ~ok
           THEN /\ raw' = raw
                /\ calc' = [op |-> "save raised",
                            measurements |-> measurements]
           ELSE /\ raw' = IF st.saved_count > 0 THEN raw (+) st.added
                          ELSE raw
                /\ calc' = [op |-> "save", measurements |-> measurements,
                            committed |-> st.saved_count > 0,
                            result |-> st.saved_count]
      /\ UNCHANGED <<now, locations, buckets, task_logs, run, runs_started,
                     ticks>>

NextIngest ==
  \/ AddLocation
  \/ \E measurements \in IngestBatches, ok \in BOOLEAN :
       CallSave(measurements, ok)

SpecIngest == Init /\ [][NextIngest]_vars

\* Overlapping invocations: each process of Procs runs the task (the manual
\* runner, run_aggregation_task.py main, started more than once); the steps
\* of the runs interleave, and a session sees the rows that are committed.
NextOverlap ==
  \/ Tick
  \/ AddLocation
  \/ \E measurements \in LogBatches : save_measurement_data(measurements)
  \/ \E p \in Procs : Run(p, {TRUE}, {"yes"})

SpecOverlap == Init /\ [][NextOverlap]_vars

----------------------------------------------------------------------------
(* Calls of get_30_minute_windows on their own *)

StartTimes ==
  {Dt(40, 22, 0, 0, 0), Dt(40, 22, 10, 30, 0), Dt(40, 22, 29, 59, 999999),
   Dt(40, 22, 30, 0, 0), Dt(40, 22, 30, 0, 1), Dt(40, 23, 0, 0, 0),
   Dt(40, 23, 30, 0, 0), Dt(40, 23, 45, 0, 0), Dt(41, 0, 0, 0, 0)}

EndTimes ==
  {Dt(40, 21, 30, 0, 0), Dt(40, 22, 0, 0, 0), Dt(40, 22, 10, 30, 0),
   Dt(40, 22, 29, 59, 999999), Dt(40, 22, 30, 0, 0), Dt(40, 22, 30, 0, 1),
   Dt(40, 23, 0, 0, 0), Dt(40, 23, 30, 0, 0), Dt(40, 23, 59, 0, 0),
   Dt(41, 0, 0, 0, 0), Dt(41, 0, 30, 0, 0), Dt(41, 1, 10, 0, 0)}

InitWindows ==
  /\ now = Now0
  /\ locations = <<>>
  /\ raw = EmptyBag
  /\ buckets = EmptyBag
  /\ task_logs = <<>>
  /\ run = [p \in Procs |-> Idle]
  /\ runs_started = 0
  /\ ticks = 0
  /\ \E start_time \in StartTimes, end_time \in EndTimes :
       calc = [op |-> "call", start_time |-> start_time,
               end_time |-> end_time]

CallWindows ==
  /\ calc.op = "call"
  /\ calc' = [op |-> "windows", start_time |-> calc.start_time,
              end_time |-> calc.end_time,
              result |-> get_30_minute_windows(calc.start_time,
                                               calc.end_time)]
  /\ UNCHANGED <<now, locations, raw, buckets, task_logs, run, runs_started,
                 ticks>>

NextWindows == CallWindows

SpecWindows == InitWindows /\ [][NextWindows]_vars

----------------------------------------------------------------------------
(* Calls of the other pure functions on their own *)

\* no run, no table row, the clock at its first value
Quiet ==
  /\ now = Now0
  /\ locations = <<>>
  /\ raw = EmptyBag
  /\ buckets = EmptyBag
  /\ task_logs = <<>>
  /\ run = [p \in Procs |-> Idle]
  /\ runs_started = 0
  /\ ticks = 0

\* 31 December 2023, 1 and 31 January, 28 and 29 February, 30 April and
\* 31 December 2024, 28 February 2025, as day counts
BoundaryDays == {40, 41, 71, 99, 100, 161, 406, 465}

\* the half-hour boundaries of those days
WindowStarts ==
  {Dt(d, h, m, 0, 0) : d \in BoundaryDays, h \in 0..23, m \in {0, 30}}

InitWindowEnd ==
  /\ Quiet
  /\ \E current \in WindowStarts : calc = [op |-> "call", current |-> current]

\* lines 37-44: one window's end
CallWindowEnd ==
  /\ calc.op = "call"
  /\ calc' = [op |-> "window_end", current |-> calc.current,
              result |-> window_end_of(calc.current)]
  /\ UNCHANGED <<now, locations, raw, buckets, task_logs, run, runs_started,
                 ticks>>

NextWindowEnd == CallWindowEnd

SpecWindowEnd == InitWindowEnd /\ [][NextWindowEnd]_vars

\* The same calls, one step per iteration of the while loop (lines 33-51).
InitWindowLoop ==
  /\ Quiet
  /\ \E start_time \in StartTimes, end_time \in EndTimes :
       calc = [op |-> "loop", start_time |-> start_time,
               end_time |-> end_time,
               st |-> [current |-> round_down_to_half_hour(start_time),
                       windows |-> <<>>]]

\* the loop condition holds: one iteration
IterateWindows ==
  /\ calc.op = "loop"
  /\ DtLT(calc.st.current, calc.end_time)
  /\ calc' = [calc EXCEPT !.st = WindowStep(calc.st, calc.end_time)]
  /\ UNCHANGED <<now, locations, raw, buckets, task_logs, run, runs_started,
                 ticks>>

\* the loop condition fails: return windows
ReturnWindows ==
  /\ calc.op = "loop"
  /\ ~DtLT(calc.st.current, calc.end_time)
  /\ calc' = [op |-> "windows", start_time |-> calc.start_time,
              end_time |-> calc.end_time, result |-> calc.st.windows]
  /\ UNCHANGED <<now, locations, raw, buckets, task_logs, run, runs_started,
                 ticks>>

NextWindowLoop == IterateWindows \/ ReturnWindows

\* a call that was made runs on until it returns
SpecWindowLoop ==
  InitWindowLoop /\ [][NextWindowLoop]_vars /\ WF_vars(NextWindowLoop)

\* timestamps around the half-hour boundaries of two days
Timestamps ==
  {Dt(d, h, m, sec, u) : d \in {40, 100}, h \in {0, 12, 23},
                         m \in {0, 1, 15, 29, 30, 31, 45, 59},
                         sec \in {0, 30, 45, 59}, u \in {0, 999999}}

InitRound ==
  /\ Quiet
  /\ \E dt \in Timestamps : calc = [op |-> "call", dt |-> dt]

\* round_down_to_half_hour(dt), and the function applied to its own result
CallRound ==
  /\ calc.op = "call"
  /\ calc' = [op |-> "round", dt |-> calc.dt,
              result |-> round_down_to_half_hour(calc.dt),
              again |-> round_down_to_half_hour(
                          round_down_to_half_hour(calc.dt))]
  /\ UNCHANGED <<now, locations, raw, buckets, task_logs, run, runs_started,
                 ticks>>

NextRound == CallRound

SpecRound == InitRound /\ [][NextRound]_vars

\* measure_data values: mappings with valid, missing, null, string, list,
\* boolean and nested values of tracked fields, and values that are no
\* mapping
BoolVal(b) == [kind |-> "bool", v |-> IF b THEN 1 ELSE 0]
ListVal    == [kind |-> "list"]
TextVal    == [kind |-> "str"]

MeasureData ==
  <<DictOf(("atmp" :> Num(2200)) @@ ("tvoc" :> Num(10000))),
    DictOf(("atmp" :> Num(2250))),
    DictOf(("atmp" :> IntVal(2201)) @@ ("pm02_corrected" :> DictOf(<<>>))),
    DictOf(("atmp" :> NoResult) @@ ("tvoc" :> Num(5000))),
    DictOf(("atmp" :> ListVal) @@ ("tvoc" :> Num(10000))),
    DictOf(("atmp" :> TextVal) @@ ("wifi" :> IntVal(-60))),
    DictOf(("atmp" :> BoolVal(TRUE)) @@ ("tvoc" :> BoolVal(FALSE))),
    DictOf(("wifi" :> IntVal(-60))),
    DictOf(("rco2_corrected" :> TextVal) @@ ("atmp" :> ListVal)
           @@ ("tvoc" :> Num(10000)) @@ ("tvocIndex" :> BoolVal(TRUE))
           @@ ("rhum_corrected" :> NoResult)
           @@ ("pm02_corrected" :> Num(1550))),
    TextVal,
    NoResult>>

\* the lists of up to two of them, and of three of the first three
RecordLists ==
  {<<>>}
  \cup {<<MeasureData[i]>> : i \in DOMAIN MeasureData}
  \cup {<<MeasureData[i], MeasureData[j]>> : i, j \in DOMAIN MeasureData}
  \cup {<<MeasureData[i], MeasureData[j], MeasureData[k]>> :
          i, j, k \in 1..3}

\* the records of a list of measure_data values, as a bag
RECURSIVE RecordsOf(_)
RecordsOf(list) ==
  IF list = <<>> THEN EmptyBag
  ELSE SetToBag({Row5(1, NoneDt, Head(list))}) (+) RecordsOf(Tail(list))

InitAverage ==
  /\ Quiet
  /\ \E list \in RecordLists : calc = [op |-> "call", records |-> list]

CallAverage ==
  /\ calc.op = "call"
  /\ calc' = [op |-> "average", records |-> calc.records,
              result |-> average_measure_data(RecordsOf(calc.records))]
  /\ UNCHANGED <<now, locations, raw, buckets, task_logs, run, runs_started,
                 ticks>>

NextAverage == CallAverage

SpecAverage == InitAverage /\ [][NextAverage]_vars

----------------------------------------------------------------------------
(* Properties *)

R == run[Main]

\* the location whose session is open (pc = "commit")
CurrentId == R.locations[R.i].id

Completed == R.pc = "returned" /\ R.outcome = "completed"

\* the run just returned follows a run that processed every location, and
\* no raw record was stored since that earlier run started
SecondOfTwo ==
  /\ Completed
  /\ R.prev.outcome = "completed"
  /\ Count(raw) = R.prev.raw_rows0

PersistedNothing ==
  /\ R.total_aggregated = 0
  /\ \A l \in DOMAIN R.location_results : R.location_results[l] = 0
  /\ buckets = R.buckets0

\* C1 as stated: a second run with no raw record added since the first
\* started persists zero buckets and leaves the bucket table unchanged.
C1_Idempotence_AsStated == SecondOfTwo => PersistedNothing

\* C1: when both runs have the same ceiling (the clock did not pass into a
\* later half-hour slot between them), the second run persists zero buckets
\* for every location and leaves the bucket table unchanged.
C1_Idempotence ==
  (SecondOfTwo /\ R.max_end_time = R.prev.max_end_time) => PersistedNothing

\* the first of the two runs did persist buckets
C1_Witness ==
  /\ SecondOfTwo
  /\ R.max_end_time = R.prev.max_end_time
  /\ R.locations # <<>>
  /\ R.prev.buckets0 = EmptyBag
  /\ buckets # EmptyBag

\* C2: under non-overlapping runs, completed or failed part-way and
\* interleaved with ingestion, the bucket table never holds two rows with
\* the same (aqi_location_id, measure_time).
C2_BucketUniqueness ==
  \A a, b \in DOMAIN buckets :
    /\ buckets[a] = 1
    /\ (a.aqi_location_id = b.aqi_location_id
        /\ a.measure_time = b.measure_time) => a = b

\* a run after an interrupted one has committed on top of earlier buckets
C2_Witness ==
  /\ Completed
  /\ R.prev.outcome \in {"failed", "killed"}
  /\ R.buckets0 # EmptyBag
  /\ R.total_aggregated > 0

\* C3: every window a session averages or inserts ends strictly after the
\* location's latest bucket end at the start of that session.
C3_ResumeFromWatermark ==
  R.pc = "commit" =>
    \A e \in R.averaged \cup {b.measure_time : b \in DOMAIN R.pending} :
      \A w \in BucketTimes(buckets, CurrentId) : DtLT(w, e)

C3_Witness ==
  /\ R.pc = "commit"
  /\ BucketTimes(buckets, CurrentId) # {}
  /\ R.pending # EmptyBag

\* the record carries a number for at least one averaged field
HasTracked(r) ==
  \E i \in DOMAIN fields_to_average : HasValid(r, fields_to_average[i])

\* the record lies in a window (end - 30 min, end] that has a bucket
Covered(r, bk) ==
  \E e \in BucketTimes(bk, r.aqi_location_id) :
    /\ DtLT(AddMinutes(e, -30), r.measure_time)
    /\ DtLE(r.measure_time, e)

\* C4 as stated: between runs, every stored raw record with a valid tracked
\* field and a timestamp at or before its location's latest bucket end lies
\* in a window that has a bucket.
C4_WatermarkCompleteness_AsStated ==
  R.pc \in {"idle", "returned"} =>
    \A r \in DOMAIN raw :
      (/\ HasTracked(r)
       /\ BucketTimes(buckets, r.aqi_location_id) # {}
       /\ DtLE(r.measure_time, latest_30min(buckets, r.aqi_location_id)))
      => Covered(r, buckets)

\* What the code does guarantee towards C4: when a location's session commits, every raw record it fetched (one
\* stored before the session's query, after its resume point and at or before
\* the ceiling) that has a valid tracked field lies in a window that has a
\* bucket.
C4_WatermarkCompleteness ==
  [][CommitLocation(Main) =>
       \A r \in DOMAIN R.five_min_records :
         HasTracked(r) => Covered(r, buckets')]_vars

\* a session has committed buckets for fetched records, one of them without
\* any tracked field
C4_Witness ==
  /\ R.pc = "loop"
  /\ R.i > 1
  /\ buckets # R.buckets0
  /\ \E r \in DOMAIN R.five_min_records : HasTracked(r)
  /\ \E r \in DOMAIN R.five_min_records : ~HasTracked(r)

\* The bucket table after a run that processes every location of locs
\* without interruption, at current_time, from the tables bk and rw.
RECURSIVE FullRun(_, _, _, _)
FullRun(bk, rw, locs, current_time) ==
  IF locs = <<>> THEN bk
  ELSE LET max_end_time ==
             round_down_to_half_hour(AddMinutes(current_time, -BUFFER_MINUTES))
       IN  FullRun(bk (+) Pending(bk, rw, Head(locs).id, current_time,
                                  max_end_time),
                   rw, Tail(locs), current_time)

\* the run just returned completed after a failed or killed run, and no raw
\* record was stored since that earlier run started
Recovered ==
  /\ Completed
  /\ R.prev.outcome \in {"failed", "killed"}
  /\ Count(raw) = R.prev.raw_rows0

\* no location that had no bucket before the earlier run has a raw record at
\* or before the later run's fallback resume point (its time - 30 days)
NothingBeyondLookback ==
  \A r \in DOMAIN raw :
    BucketTimes(R.prev.buckets0, r.aqi_location_id) = {}
      => DtLT(AddDays(R.current_time, -LOOKBACK_DAYS), r.measure_time)

\* C5 as stated: a completed run after a failed or killed one, over the same
\* raw data, leaves the bucket table a single uninterrupted run at the later
\* time would have produced.
C5_Recovery_AsStated ==
  Recovered =>
    buckets = FullRun(R.prev.buckets0, raw, R.locations, R.current_time)

\* C5: the same, for raw data none of which has slid to or before the later
\* run's 30-day fallback resume point.
C5_Recovery ==
  (Recovered /\ NothingBeyondLookback) =>
    buckets = FullRun(R.prev.buckets0, raw, R.locations, R.current_time)

\* the interrupted run had committed buckets and the later run added more
C5_Witness ==
  /\ Recovered
  /\ NothingBeyondLookback
  /\ R.prev.buckets0 = EmptyBag
  /\ R.buckets0 # EmptyBag
  /\ R.total_aggregated > 0

\* C6: when one location's session fails, every other location of the run
\* has been processed in that run and none of its buckets is left to persist.
C6_PerEntityIsolation ==
  (/\ R.pc = "returned"
   /\ R.outcome = "failed"
   /\ R.i <= Len(R.locations))
  => \A k \in 1..Len(R.locations) :
       k # R.i =>
         /\ R.locations[k].location_id \in DOMAIN R.location_results
         /\ Pending(buckets, raw, R.locations[k].id, R.current_time,
                    R.max_end_time) = EmptyBag

\* the task log row the run committed
Row == task_logs[R.log_row]

\* an exception ended the run after its row was committed
FailedRun ==
  /\ R.pc = "returned"
  /\ R.outcome = "failed"
  /\ R.log_row # 0

RecordedAsFailed ==
  /\ Row.status = "failed"
  /\ Row.is_successful = FALSE
  /\ Row.result = ErrorMessage
  /\ Row.error_message = ErrorMessage

\* once the run has failed, nothing else of it happens: no location is
\* processed and no bucket is stored until the next invocation starts
Aborted ==
  (FailedRun /\ R' # R) =>
    /\ R'.pc \in {"started", "returned"}
    /\ R'.location_results = <<>>
    /\ buckets' = buckets

\* C7 as stated: a run that raises after its row was committed leaves the row
\* 'failed', not successful, with the error message as result and
\* error_message.
C7_RunLevelFailure_AsStated == FailedRun => RecordedAsFailed

\* C7: a run that raises processes no further location, and its row ends
\* 'failed' with the error message as result and error_message when the run
\* had read the row's id and the update of the row went through; otherwise
\* the row stays 'started'.
C7_RunLevelFailure ==
  /\ [](FailedRun =>
          /\ R.log_written => RecordedAsFailed
          /\ ~R.log_written => Row = TaskLog("started"))
  /\ [][Aborted]_vars

\* a location's session failed with buckets pending and the row was updated
C7_Witness ==
  /\ FailedRun
  /\ R.log_written
  /\ R.i <= Len(R.locations)
  /\ R.five_min_records # EmptyBag

\* the run read the list of locations and found it empty
EmptyListRun ==
  /\ R.pc = "returned"
  /\ R.max_end_time # NoneDt
  /\ R.locations = <<>>

PersistedAndQueriedNothing ==
  /\ buckets = R.buckets0
  /\ R.total_aggregated = 0
  /\ R.queries = 0

\* C8 as stated: a run that finds no location persists no bucket, issues no
\* 5-minute query, and its row ends 'completed' and successful.
C8_NoLocations_AsStated ==
  EmptyListRun =>
    /\ PersistedAndQueriedNothing
    /\ Row.status = "completed"
    /\ Row.is_successful = TRUE

\* C8: a run that finds no location persists no bucket, issues no 5-minute
\* query and returns normally; its row is never 'failed', and ends
\* 'completed' and successful with the neutral message when the update of
\* the row went through; otherwise the row stays 'started'.
C8_NoLocations ==
  EmptyListRun =>
    /\ PersistedAndQueriedNothing
    /\ R.outcome = "completed"
    /\ R.log_written =>
          /\ Row.status = "completed"
          /\ Row.is_successful = TRUE
          /\ Row.result = NoLocationsFound
          /\ Row.error_message = NoResult
    /\ ~R.log_written => Row = TaskLog("started")

\* a run over an empty location table whose row was updated
C8_Witness ==
  /\ EmptyListRun
  /\ R.log_written
  /\ Row.status = "completed"

\* C9: each inserted bucket averages exactly the fetched records whose
\* timestamp t satisfies end - 30 min < t <= end: a record at a window's end
\* is in that window, a record at a window's start is in the one before.
C9_BoundaryInclusivity ==
  R.pc = "commit" =>
    \A b \in DOMAIN R.pending :
      b.measure_data =
        average_measure_data(
          Restrict(R.five_min_records,
                   {r \in DOMAIN R.five_min_records :
                      /\ r.measure_time.min > b.measure_time.min - 30
                      /\ r.measure_time.min <= b.measure_time.min}))

\* a record exactly on the boundary between two windows that both get a
\* bucket
C9_Witness ==
  /\ R.pc = "commit"
  /\ Count(R.pending) = 2
  /\ \E r \in DOMAIN R.five_min_records : r.measure_time = T_edge
  /\ \E b \in DOMAIN R.pending : b.measure_time = T_edge
  /\ \E b \in DOMAIN R.pending : b.measure_time = AddMinutes(T_edge, 30)

\* the datetime at minute m, with no seconds
AtMinute(m) == [min |-> m, second |-> 0, microsecond |-> 0]

\* dt is on a half-hour boundary
Aligned(dt) == dt.min % 30 = 0 /\ dt.second = 0 /\ dt.microsecond = 0

\* the windows (s, s + 30 min), s on a half-hour boundary, with s at or after
\* the boundary at or before start_time and s + 30 min <= end_time, ascending
AlignedWindows(start_time, end_time) ==
  LET first == start_time.min - (start_time.min % 30)
      n == IF end_time.min < first THEN 0 ELSE (end_time.min - first) \div 30
  IN  [i \in 1..n |->
         <<AtMinute(first + 30 * (i - 1)), AtMinute(first + 30 * i)>>]

\* C10: get_30_minute_windows(start, end) is the ascending list of the
\* half-hour-aligned windows from round_down_to_half_hour(start) that end at
\* or before end; it is empty when start = end, and it starts at start when
\* start is aligned and start + 30 min <= end.
C10_WindowGeneration ==
  calc.op = "windows" =>
    /\ calc.result = AlignedWindows(calc.start_time, calc.end_time)
    /\ calc.start_time = calc.end_time => calc.result = <<>>
    /\ (/\ Aligned(calc.start_time)
        /\ DtLE(AddMinutes(calc.start_time, 30), calc.end_time))
       => calc.result[1][1] = calc.start_time

\* a call from an unaligned start over midnight to an unaligned end: the
\* last window ends exactly at the boundary before end
C10_Witness ==
  /\ calc.op = "windows"
  /\ ~Aligned(calc.start_time)
  /\ ~Aligned(calc.end_time)
  /\ Len(calc.result) = 6
  /\ calc.result[1][1] = Dt(40, 22, 0, 0, 0)
  /\ calc.result[6][2] = Dt(41, 1, 0, 0, 0)

\* the date after a date, by carrying day into month into year
NextDate(f) ==
  IF f.day < DaysInMonth(f.year, f.month)
    THEN [f EXCEPT !.day = @ + 1]
    ELSE IF f.month < 12
      THEN [f EXCEPT !.month = @ + 1, !.day = 1]
      ELSE [f EXCEPT !.year = @ + 1, !.month = 1, !.day = 1]

\* the fields of the datetime 30 minutes after an aligned one
HalfHourLater(f) ==
  IF f.minute = 0 THEN [f EXCEPT !.minute = 30]
  ELSE IF f.hour < 23 THEN [f EXCEPT !.hour = @ + 1, !.minute = 0]
  ELSE [NextDate(f) EXCEPT !.hour = 0, !.minute = 0]

\* C11: for every half-hour-aligned window start, the window end the loop
\* computes is the start plus 30 minutes, across hour boundaries, from 23:30
\* to 00:00 of the next day, and over month ends and year ends.
C11_WindowEndArithmetic ==
  calc.op = "window_end" =>
    /\ calc.result = AddMinutes(calc.current, 30)
    /\ Fields(calc.result) = HalfHourLater(Fields(calc.current))

\* the window from 23:30 on 31 December 2023 ends at 00:00 on 1 January 2024
C11_Witness ==
  /\ calc.op = "window_end"
  /\ Fields(calc.current) =
       [year |-> 2023, month |-> 12, day |-> 31, hour |-> 23, minute |-> 30,
        second |-> 0, microsecond |-> 0]
  /\ Fields(calc.result) =
       [year |-> 2024, month |-> 1, day |-> 1, hour |-> 0, minute |-> 0,
        second |-> 0, microsecond |-> 0]

\* C12: round_down_to_half_hour(t) is the start of t's half-hour: minute 0
\* or 30, no seconds or microseconds, same date and hour, result <= t <
\* result + 30 min; applied to an aligned timestamp it returns it unchanged.
C12_RoundDown ==
  calc.op = "round" =>
    /\ Fields(calc.result).minute \in {0, 30}
    /\ Fields(calc.result).second = 0
    /\ Fields(calc.result).microsecond = 0
    /\ \A f \in {"year", "month", "day", "hour"} :
         Fields(calc.result)[f] = Fields(calc.dt)[f]
    /\ DtLE(calc.result, calc.dt)
    /\ DtLT(calc.dt, AddMinutes(calc.result, 30))
    /\ calc.again = calc.result
    /\ Aligned(calc.dt) => calc.result = calc.dt

\* 12:30:00 is returned unchanged
C12_Witness ==
  /\ calc.op = "round"
  /\ calc.dt = Dt(40, 12, 30, 0, 0)
  /\ calc.result = calc.dt

\* the tracked fields
TrackedFields ==
  {"rco2_corrected", "atmp", "tvoc", "tvocIndex", "rhum_corrected",
   "pm02_corrected"}

\* the positions of a list whose measure_data is a mapping that holds a
\* number for the field
ValidAt(list, f) ==
  {i \in DOMAIN list :
     /\ list[i].kind = "dict"
     /\ f \in DOMAIN list[i].items
     /\ list[i].items[f].kind \in {"int", "float", "bool"}}

\* the value at a valid position, in hundredths; True is 1.0, False 0.0
NumberAt(list, i, f) ==
  IF list[i].items[f].kind = "bool"
    THEN 100 * list[i].items[f].v
    ELSE list[i].items[f].v

RECURSIVE SumAt(_, _, _)
SumAt(list, positions, f) ==
  IF positions = {} THEN 0
  ELSE LET i == CHOOSE x \in positions : TRUE
       IN  NumberAt(list, i, f) + SumAt(list, positions \ {i}, f)

\* x is one of the hundredths nearest to total / n
NearestHundredth(x, total, n) ==
  /\ 2 * (x * n - total) <= n
  /\ 2 * (total - x * n) <= n

\* C13: each value average_measure_data returns is the mean of the valid
\* values of its field, rounded to two decimals; the divisor counts only the
\* records whose value of the field is valid.
C13_Averaging ==
  calc.op = "average" =>
    \A f \in DOMAIN calc.result :
      /\ ValidAt(calc.records, f) # {}
      /\ NearestHundredth(calc.result[f],
                          SumAt(calc.records, ValidAt(calc.records, f), f),
                          Cardinality(ValidAt(calc.records, f)))

\* one record without tvoc, one with a null atmp: each mean has divisor 1
C13_Witness ==
  /\ calc.op = "average"
  /\ calc.records = <<MeasureData[2], MeasureData[4]>>
  /\ calc.result = ("atmp" :> 2250) @@ ("tvoc" :> 5000)

\* C14: the keys of the result are exactly the tracked fields for which at
\* least one record holds a valid value; an empty list, or records with
\* untracked fields only, give an empty mapping.
C14_OutputKeys ==
  calc.op = "average" =>
    /\ DOMAIN calc.result =
         {f \in TrackedFields : ValidAt(calc.records, f) # {}}
    /\ calc.records = <<>> => DOMAIN calc.result = {}
    /\ (\A i \in DOMAIN calc.records :
          /\ calc.records[i].kind = "dict"
          /\ DOMAIN calc.records[i].items \cap TrackedFields = {})
       => DOMAIN calc.result = {}

\* a record with two tracked fields and one with a numeric untracked field
C14_Witness ==
  /\ calc.op = "average"
  /\ calc.records = <<MeasureData[1], MeasureData[8]>>
  /\ DOMAIN calc.result = {"atmp", "tvoc"}

\* a measure_data mapping without its string, list, nested and null values
WithoutNonNumbers(md) ==
  IF md.kind # "dict" THEN md
  ELSE DictOf([k \in {x \in DOMAIN md.items :
                        md.items[x].kind \in {"int", "float", "bool"}} |->
                 md.items[k]])

\* a measure_data mapping with True replaced by 1.0 and False by 0.0
WithBoolsAsFloats(md) ==
  IF md.kind # "dict" THEN md
  ELSE DictOf([k \in DOMAIN md.items |->
                 IF md.items[k].kind = "bool"
                   THEN Num(100 * md.items[k].v)
                   ELSE md.items[k]])

\* the averages of a list of measure_data values
AverageOf(list) == average_measure_data(RecordsOf(list))

\* C15: string, list, nested and null values are skipped without touching
\* the other fields of their record (the result is that of the records with
\* those values removed); a boolean counts as 1.0 or 0.0; a record whose
\* measure_data is no mapping contributes nothing.
C15_TypeFiltering ==
  calc.op = "average" =>
    /\ calc.result =
         AverageOf([i \in DOMAIN calc.records |->
                      WithoutNonNumbers(calc.records[i])])
    /\ calc.result =
         AverageOf([i \in DOMAIN calc.records |->
                      WithBoolsAsFloats(calc.records[i])])
    /\ calc.result =
         AverageOf(SelectSeq(calc.records, LAMBDA md : md.kind = "dict"))
    /\ calc.records = <<MeasureData[5]>> =>
         calc.result = ("tvoc" :> 10000)
    /\ calc.records = <<MeasureData[7]>> =>
         calc.result = ("atmp" :> 100) @@ ("tvoc" :> 0)

\* the record with a string, a list, a null, a boolean and two numbers
C15_Witness ==
  /\ calc.op = "average"
  /\ calc.records = <<MeasureData[9]>>
  /\ calc.result =
       ("tvoc" :> 10000) @@ ("tvocIndex" :> 100) @@ ("pm02_corrected" :> 1550)

\* C16: a run's ceiling is half-hour aligned and at most its time minus 30
\* minutes; no fetched raw record is above it, and every bucket the run adds
\* or has persisted ends at or before it.
C16_Ceiling ==
  R.pc \in {"loop", "commit"} =>
    /\ Aligned(R.max_end_time)
    /\ DtLE(R.max_end_time, AddMinutes(R.current_time, -30))
    /\ \A r \in DOMAIN R.five_min_records :
         DtLE(r.measure_time, R.max_end_time)
    /\ \A b \in DOMAIN R.pending : DtLE(b.measure_time, R.max_end_time)
    /\ \A b \in DOMAIN buckets :
         b \notin DOMAIN R.buckets0 => DtLE(b.measure_time, R.max_end_time)

\* a session adds the bucket that ends at the ceiling while a raw record of
\* its location above the ceiling is stored
C16_Witness ==
  /\ R.pc = "commit"
  /\ \E b \in DOMAIN R.pending : b.measure_time = R.max_end_time
  /\ \E r \in DOMAIN raw :
       /\ r.aqi_location_id = CurrentId
       /\ DtLT(R.max_end_time, r.measure_time)

\* C17: no step removes or changes a bucket row, a step of a run leaves the
\* raw records and the locations as they are, and no location's latest
\* bucket end decreases.
C17_AppendOnly ==
  [][/\ \A b \in DOMAIN buckets :
          b \in DOMAIN buckets' /\ buckets'[b] >= buckets[b]
     /\ run' # run => (raw' = raw /\ locations' = locations)
     /\ \A id \in {b.aqi_location_id : b \in DOMAIN buckets} :
          DtLE(latest_30min(buckets, id), latest_30min(buckets', id))]_vars

\* a run has added buckets to a table that already held some
C17_Witness ==
  /\ R.pc = "loop"
  /\ R.buckets0 # EmptyBag
  /\ R.total_aggregated > 0
  /\ \A b \in DOMAIN R.buckets0 : b \in DOMAIN buckets

\* the end of the window (end - 30 min, end] that holds timestamp t
WindowEndAt(t) ==
  IF Aligned(t) THEN t ELSE AtMinute(30 * (t.min \div 30) + 30)

\* C18: every bucket, pending or persisted, has a non-empty mapping of
\* tracked fields and a stored raw record of its location in its window; a
\* session adds a bucket for exactly the windows that hold a fetched record
\* with a valid tracked field, whatever the windows before them held.
C18_NoEmptyBucket ==
  /\ \A b \in DOMAIN buckets \cup DOMAIN R.pending :
       /\ DOMAIN b.measure_data # {}
       /\ DOMAIN b.measure_data \subseteq TrackedFields
       /\ \E r \in DOMAIN raw :
            /\ r.aqi_location_id = b.aqi_location_id
            /\ WindowEndAt(r.measure_time) = b.measure_time
  /\ R.pc = "commit" =>
       {b.measure_time : b \in DOMAIN R.pending} =
         {WindowEndAt(r.measure_time) :
            r \in {x \in DOMAIN R.five_min_records : HasTracked(x)}}

\* a session adds the bucket of a window that follows a window whose only
\* record has no tracked field
C18_Witness ==
  /\ R.pc = "commit"
  /\ \E r \in DOMAIN R.five_min_records :
       /\ ~HasTracked(r)
       /\ WindowEndAt(r.measure_time) = T_edge
  /\ {b.measure_time : b \in DOMAIN R.pending} = {AddMinutes(T_edge, 30)}

\* the (location, window end) pairs of the rows of a bucket table
Keys(bk) == {<<b.aqi_location_id, b.measure_time>> : b \in DOMAIN bk}

\* the number of rows of a bucket table for one (location, window end)
Rows(bk, k) ==
  Count(Restrict(bk, {b \in DOMAIN bk :
                        <<b.aqi_location_id, b.measure_time>> = k}))

\* process p commits its session in this step
Commits(p) == run[p].pc = "commit" /\ run'[p].pc = "loop"

\* C19: nothing orders the existence check of one run and the commit of
\* another.  A (location, window end) gets a second bucket only in the commit
\* of a session whose existence check saw no bucket for it and which another
\* run's commit overtook; a run adds at most one bucket per pair, so the
\* rows of a pair never outnumber the runs started.
C19_NoMutualExclusion ==
  /\ [](\A k \in Keys(buckets) : Rows(buckets, k) <= runs_started)
  /\ [][\A k \in Keys(buckets') :
         (Rows(buckets', k) > 1 /\ Rows(buckets', k) > Rows(buckets, k)) =>
           \E p \in Procs :
             /\ Commits(p)
             /\ k \in Keys(run[p].pending)
             /\ k \notin Keys(run[p].seen)
             /\ k \in Keys(buckets)
             /\ Rows(buckets', k) = Rows(buckets, k) + 1]_vars

\* both runs have committed a bucket for the same location and window end
C19_Witness ==
  /\ \E k \in Keys(buckets) : Rows(buckets, k) = 2
  /\ \A p \in Procs : run[p].pc = "loop" /\ run[p].total_aggregated = 1

\* rows are only appended, one per step at most, with status 'started'
RowsAppended ==
  /\ Len(task_logs') \in {Len(task_logs), Len(task_logs) + 1}
  /\ Len(task_logs') = Len(task_logs) + 1 =>
       /\ task_logs'[Len(task_logs')] = TaskLog("started")
       /\ runs_started' = runs_started + 1

\* a row changes at most once: from 'started' to 'completed' or 'failed'
RowTransitions ==
  \A id \in DOMAIN task_logs :
    task_logs'[id] # task_logs[id] =>
      /\ task_logs[id].status = "started"
      /\ task_logs'[id].status \in {"completed", "failed"}

RowsWellFormed ==
  \A id \in DOMAIN task_logs :
    /\ task_logs[id].status \in {"started", "completed", "failed"}
    /\ task_logs[id].is_successful <=> task_logs[id].status = "completed"

\* the invocation has read the locations
HasReadLocations == R.max_end_time # NoneDt

\* C20 as stated: every invocation creates exactly one row.
C20_RunLog_AsStated ==
  /\ [](Len(task_logs) = runs_started)
  /\ [](RowsWellFormed)
  /\ [][RowsAppended /\ RowTransitions]_vars

\* C20: an invocation creates at most one row, 'started', and none when the
\* insert's commit raises; an invocation that reads the locations has
\* created its row before and holds its id, and the row is 'started' while
\* the invocation runs; a row changes at most once, from 'started' to
\* 'completed' or 'failed'; is_successful holds exactly for 'completed'.
C20_RunLog ==
  /\ [](Len(task_logs) <= runs_started)
  /\ [](RowsWellFormed)
  /\ [](HasReadLocations =>
          /\ R.task_log_id \in DOMAIN task_logs
          /\ R.task_log_id = R.log_row)
  /\ [](Active(Main) => Row.status = "started")
  /\ [][RowsAppended /\ RowTransitions]_vars

\* one invocation has completed and another has failed, each in its own row
C20_Witness ==
  /\ Len(task_logs) = 2
  /\ task_logs[1].status = "completed" /\ task_logs[1].is_successful
  /\ task_logs[2].status = "failed" /\ ~task_logs[2].is_successful
  /\ HasReadLocations

\* the invocation returned to its caller (it was not killed) and its row
\* had been committed
ReturnedWithRow ==
  /\ R.pc = "returned"
  /\ R.outcome \in {"completed", "failed"}
  /\ R.log_row # 0

\* C21 as stated: on return the row is 'completed' or 'failed'.
C21_RunTermination_AsStated ==
  ReturnedWithRow => Row.status \in {"completed", "failed"}

\* C21: every invocation returns, as completed or failed (no exception
\* reaches the caller) unless the process is killed; on return its row holds
\* the outcome when the update of the row went through, and is still
\* 'started' when the update raised or the run never read the row's id.
C21_RunTermination ==
  /\ Active(Main) ~> R.pc = "returned"
  /\ [](R.pc = "returned" => R.outcome \in {"completed", "failed", "killed"})
  /\ [](ReturnedWithRow =>
          /\ R.log_written => Row.status = R.outcome
          /\ ~R.log_written => Row.status = "started")

\* a run over a location with records returned as completed while the
\* update of its row raised
C21_Witness ==
  /\ ReturnedWithRow
  /\ R.outcome = "completed"
  /\ R.total_aggregated > 0
  /\ ~R.log_written
  /\ Row.status = "started"

\* the sum of the per-location counts of a run
RECURSIVE SumCounts(_)
SumCounts(results) ==
  IF DOMAIN results = {} THEN 0
  ELSE LET id == CHOOSE x \in DOMAIN results : TRUE
       IN  results[id] +
           SumCounts([y \in DOMAIN results \ {id} |-> results[y]])

\* the run went through all of a non-empty list of locations
CompletedAll ==
  /\ R.pc = "returned"
  /\ R.outcome = "completed"
  /\ R.locations # <<>>

\* no stored raw record of the location the run is at lies after the
\* location's resume point and at or before the ceiling
NothingToFetch ==
  /\ R.pc = "loop"
  /\ R.i <= Len(R.locations)
  /\ ~\E r \in DOMAIN raw :
        /\ r.aqi_location_id = CurrentId
        /\ DtLT(start_time_of(buckets, CurrentId, R.current_time),
                r.measure_time)
        /\ DtLE(r.measure_time, R.max_end_time)

\* the step of the run at a location with nothing to fetch: count 0, no
\* window averaged, no bucket, on to the next location
ZeroAndContinue ==
  (NothingToFetch /\ R' # R /\ R'.pc = "loop") =>
    /\ R'.i = R.i + 1
    /\ R'.location_results[R.locations[R.i].location_id] = 0
    /\ R'.averaged = {}
    /\ R'.pending = EmptyBag
    /\ R'.total_aggregated = R.total_aggregated
    /\ buckets' = buckets

\* C22: the total in the row of a run that went through all its locations
\* is the number of bucket rows the run committed and the sum of the
\* per-location counts; a location with nothing to fetch gets count 0, no
\* window averaged and no bucket, and the run goes on to the next location.
C22_CompletionSummary ==
  /\ [](CompletedAll =>
          /\ Row.status = "completed"
          /\ Row.result = Processed(Len(R.locations), R.total_aggregated)
          /\ R.total_aggregated = Count(buckets) - Count(R.buckets0)
          /\ R.total_aggregated = SumCounts(R.location_results)
          /\ DOMAIN R.location_results =
               {R.locations[i].location_id : i \in DOMAIN R.locations})
  /\ [][ZeroAndContinue]_vars

\* a completed run over two locations: buckets for one, nothing to fetch
\* for the other, which came first
C22_Witness ==
  /\ CompletedAll
  /\ Len(R.locations) = 2
  /\ R.location_results[R.locations[1].location_id] = 0
  /\ R.location_results[R.locations[2].location_id] > 0
  /\ Row.result.aggregated = Count(buckets) - Count(R.buckets0)

\* every iteration moves current forward, by at most half an hour
LoopAdvances ==
  (calc.op = "loop" /\ calc'.op = "loop") =>
    /\ DtLT(calc.st.current, calc'.st.current)
    /\ DtLE(calc'.st.current, AddMinutes(calc.st.current, 30))

\* C23: every call of get_30_minute_windows returns, also when end is
\* before start (then with no window): each iteration moves current forward
\* and the loop stops once current reaches end.  The result is a finite
\* list of at most one window per half hour between start and end, each
\* window starts before it ends and ends where the next one starts, and the
\* same arguments give the same list again.
C23_WindowsTermination ==
  /\ calc.op = "loop" ~> calc.op = "windows"
  /\ [][LoopAdvances]_vars
  /\ [](calc.op = "windows" =>
          LET w == calc.result
          IN  /\ DOMAIN w = 1..Len(w)
              /\ 30 * Len(w) <= 30 + IF DtLT(calc.start_time, calc.end_time)
                                       THEN calc.end_time.min -
                                            calc.start_time.min
                                       ELSE 0
              /\ DtLT(calc.end_time, calc.start_time) => w = <<>>
              /\ \A i \in DOMAIN w : DtLT(w[i][1], w[i][2])
              /\ \A i \in 1..(Len(w) - 1) :
                   /\ w[i][2] = w[i + 1][1]
                   /\ DtLT(w[i][1], w[i + 1][1])
              /\ w = get_30_minute_windows(calc.start_time, calc.end_time))

\* a call from an unaligned start has returned several windows
C23_Witness ==
  /\ calc.op = "windows"
  /\ ~Aligned(calc.start_time)
  /\ Len(calc.result) >= 3

\* the rows this step adds to the raw table
Stored == {r \in DOMAIN raw' : r \notin DOMAIN raw}

\* the ceilings of the latest runs that have read the clock
Ceilings ==
  {R.max_end_time, R.prev.max_end_time, R.read.max_end_time} \ {NoneDt}

\* C24: when no record is stored more than 30 minutes after its timestamp,
\* every record is stored with a timestamp after the ceiling of every run
\* that has executed, and so after the end of every bucket of its location:
\* every bucket stays the average of all stored records of its window.
C24_SafetyBuffer ==
  /\ [][\A r \in Stored :
          /\ \A c \in Ceilings : DtLT(c, r.measure_time)
          /\ \A b \in DOMAIN buckets :
               b.aqi_location_id = r.aqi_location_id =>
                 DtLT(b.measure_time, r.measure_time)]_vars
  /\ [](\A b \in DOMAIN buckets :
          b.measure_data =
            average_measure_data(
              Restrict(raw, {r \in DOMAIN raw :
                               /\ r.aqi_location_id = b.aqi_location_id
                               /\ WindowEndAt(r.measure_time) =
                                    b.measure_time})))

\* a record was stored after a run had executed whose ceiling was just
\* below the record's timestamp, and a later run has bucketed it
C24_Witness ==
  /\ R.prev.max_end_time = T_edge
  /\ R.max_end_time = T_midnight
  /\ R.raw_rows0 > R.prev.raw_rows0
  /\ \E b \in DOMAIN buckets : b.measure_time = T_midnight

\* the stored records of a location in the window that ends at window_end
StoredInWindow(id, window_end) ==
  Restrict(raw, {r \in DOMAIN raw :
                   /\ r.aqi_location_id = id
                   /\ WindowEndAt(r.measure_time) = window_end})

\* C25: when a session has gone through its windows, each bucket it adds is
\* the average of all records of the location stored at that moment with a
\* timestamp in the bucket's window, also for the first bucket of a location
\* that had none.
C25_CompleteWindows ==
  [][(R.pc = "loop" /\ R'.pc = "commit") =>
       \A b \in DOMAIN R'.pending :
         b.measure_data =
           average_measure_data(
             StoredInWindow(b.aqi_location_id, b.measure_time))]_vars

\* the measurement has what a raw row needs: a timestamp that parses and
\* the locationId of a known location
WellFormed(m) ==
  /\ "timestamp" \in DOMAIN m
  /\ m["timestamp"].kind = "str"
  /\ "iso" \in DOMAIN m["timestamp"]
  /\ "locationId" \in DOMAIN m
  /\ m["locationId"].kind = "int"
  /\ \E j \in DOMAIN locations : locations[j].location_id = m["locationId"].v

\* the raw row of a well-formed measurement
RowOf(m) ==
  Row5((CHOOSE l \in {locations[j] : j \in DOMAIN locations} :
          l.location_id = m["locationId"].v).id,
       m["timestamp"].iso, DictOf(m))

\* the positions of the measurements of the batch that have to be stored:
\* well-formed, and no such row was in the table before the call
ToStore(ms) ==
  {k \in DOMAIN ms :
     /\ WellFormed(ms[k])
     /\ ~\E r \in DOMAIN raw :
           /\ r.aqi_location_id = RowOf(ms[k]).aqi_location_id
           /\ r.measure_time = RowOf(ms[k]).measure_time}

\* this step is a call of save_measurement_data that returned
SaveReturns == locations' = locations /\ calc'.op = "save"

\* C26: a call of save_measurement_data that returns has added a row for
\* each well-formed measurement of the batch that was not stored before,
\* whatever measurements it skipped before it, and nothing else; it returns
\* the number of rows it added and commits only when that number is not 0.
C26_IngestionSkipPolicy ==
  [][SaveReturns =>
       LET ms == calc'.measurements
       IN  /\ calc'.result = Cardinality(ToStore(ms))
           /\ calc'.result = Count(raw') - Count(raw)
           /\ \A k \in ToStore(ms) : RowOf(ms[k]) \in DOMAIN raw'
           /\ \A r \in DOMAIN raw' :
                r \in DOMAIN raw \/ \E k \in ToStore(ms) : r = RowOf(ms[k])
           /\ calc'.committed <=> calc'.result > 0
           /\ calc'.result = 0 => raw' = raw]_vars

\* a call skipped the first measurement of its batch and stored the second
C26_Witness ==
  /\ calc.op = "save"
  /\ Len(calc.measurements) = 2
  /\ ~WellFormed(calc.measurements[1])
  /\ WellFormed(calc.measurements[2])
  /\ calc.result = 1
  /\ RowOf(calc.measurements[2]) \in DOMAIN raw

\* the session at the current location resumed from a watermark
FromWatermark ==
  /\ R.pc = "commit"
  /\ BucketTimes(R.seen, CurrentId) # {}

\* C27: every bucket, pending or persisted, ends on a half-hour boundary;
\* so the resume point of a session that resumes from a watermark is
\* aligned, and the first of the session's windows starts at it.
C27_BucketAlignment ==
  /\ \A b \in DOMAIN buckets \cup DOMAIN R.pending : Aligned(b.measure_time)
  /\ FromWatermark =>
       LET start_time == latest_30min(R.seen, CurrentId)
           windows == Windows(start_time, R.max_end_time)
       IN  /\ Aligned(start_time)
           /\ start_time_of(R.seen, CurrentId, R.current_time) = start_time
           /\ windows # <<>>
           /\ windows[1][1] = start_time

\* a session that resumed from a watermark adds a bucket
C27_Witness ==
  /\ FromWatermark
  /\ R.pending # EmptyBag
  /\ \E r \in DOMAIN raw : ~Aligned(r.measure_time)

\* the windows of the session at the current location
SessionWindows ==
  Windows(start_time_of(R.seen, CurrentId, R.current_time), R.max_end_time)

\* the windows of the session that the loop's test puts record r in
WindowsOf(r) ==
  {i \in DOMAIN SessionWindows : InWindow(r, SessionWindows[i])}

\* C28: the loop's test puts every record a session fetched in exactly one
\* of the session's windows.
C28_WindowPartition ==
  R.pc = "commit" =>
    \A r \in DOMAIN R.five_min_records :
      /\ DtLT(start_time_of(R.seen, CurrentId, R.current_time),
              r.measure_time)
      /\ DtLE(r.measure_time, R.max_end_time)
      /\ Cardinality(WindowsOf(r)) = 1

\* a session that started from the unaligned 30-day resume point fetched a
\* record on the boundary between two windows and a record inside a window
C28_Witness ==
  /\ R.pc = "commit"
  /\ ~Aligned(start_time_of(R.seen, CurrentId, R.current_time))
  /\ \E r \in DOMAIN R.five_min_records : r.measure_time = T_edge
  /\ \E r \in DOMAIN R.five_min_records : ~Aligned(r.measure_time)

\* the rows of a bucket table for one location
BucketsOf(bk, id) ==
  Restrict(bk, {b \in DOMAIN bk : b.aqi_location_id = id})

\* the bucket table changes only in the commit of a session, by all the
\* rows the session added, which are rows of the session's location
CommittedTogether ==
  buckets' # buckets =>
    /\ R.pc = "commit" /\ R'.pc = "loop"
    /\ buckets' = buckets (+) R.pending
    /\ Count(R.pending) = R.aggregated_count
    /\ \A b \in DOMAIN R.pending : b.aqi_location_id = CurrentId

\* the run failed while it was at one of its locations
FailedAtLocation ==
  /\ R.pc = "returned"
  /\ R.outcome = "failed"
  /\ R.i <= Len(R.locations)

\* C29: the buckets of a session are committed together, after the
\* session's last window; when a run fails at a location, no bucket of that
\* location from this run is persisted, and the buckets of the locations
\* processed before it are.
C29_AtomicCommit ==
  /\ [][CommittedTogether]_vars
  /\ [](FailedAtLocation =>
          /\ BucketsOf(buckets, CurrentId) = BucketsOf(R.buckets0, CurrentId)
          /\ \A j \in 1..(R.i - 1) :
               Count(BucketsOf(buckets, R.locations[j].id)) =
                 Count(BucketsOf(R.buckets0, R.locations[j].id)) +
                 R.location_results[R.locations[j].location_id])

\* a run committed a bucket for its first location and failed at its
\* second, after that session had fetched records
C29_Witness ==
  /\ FailedAtLocation
  /\ R.i = 2
  /\ R.location_results[R.locations[1].location_id] > 0
  /\ \E r \in DOMAIN R.five_min_records :
       r.aqi_location_id = CurrentId /\ HasTracked(r)
  /\ BucketsOf(buckets, CurrentId) = EmptyBag

\* C30: the raw table holds at most one row per location and measure_time.
C30_RawUniqueness ==
  \A r \in DOMAIN raw :
    /\ raw[r] = 1
    /\ \A x \in DOMAIN raw :
         (/\ x.aqi_location_id = r.aqi_location_id
          /\ x.measure_time = r.measure_time) => x = r

====
